---- MODULE Spec2Model ----
(***************************************************************************)
(* Credential resolution of the Databricks example app                     *)
(* (src/example-app/src/utils.py).                                         *)
(*                                                                         *)
(* The process environment (os.environ) and the module global              *)
(* databricks_client are shared by the request threads of the Flask server *)
(* started by app.run (src/example-app/app.py:471).  Every request runs    *)
(* one of the operations; the operations that need a per-user client call  *)
(* get_user_authorized_client, whose save / remove / construct / restore   *)
(* steps on os.environ are separate actions, so that two requests may      *)
(* interleave them.  Each of save, remove and restore handles the keys of  *)
(* its branch in one step; the reads of DATABRICKS_APP_NAME and            *)
(* SQL_WAREHOUSE_ID, which nothing writes, are taken with the step that    *)
(* precedes them.  The Databricks SDK and workspace are outside the        *)
(* repository: a constructor or API call either returns or raises.         *)
(***************************************************************************)
EXTENDS Integers, Sequences, FiniteSets, TLC

\* ------------------------------------------------------------------ bounds
\* Total number of requests the server handles in one behaviour.
MaxRequests == 2

\* The request threads of the server.
Threads == {"t1", "t2"}

\* ------------------------------------------------------- values and names
\* Python's None: the value of os.getenv / os.environ.get for an unset key,
\* of a missing request header, of an omitted argument.
None == "None"

HOST == "DATABRICKS_HOST"
CLIENT_ID == "DATABRICKS_CLIENT_ID"
CLIENT_SECRET == "DATABRICKS_CLIENT_SECRET"
APP_NAME == "DATABRICKS_APP_NAME"
WAREHOUSE == "SQL_WAREHOUSE_ID"

Keys == {HOST, CLIENT_ID, CLIENT_SECRET, APP_NAME, WAREHOUSE}

\* The keys each branch of get_user_authorized_client saves, removes, restores.
UserBranchKeys == {CLIENT_ID, CLIENT_SECRET}
CliBranchKeys == {HOST, CLIENT_ID, CLIENT_SECRET}

\* Values an environment variable may hold at startup: unset, the empty
\* string, or a non-empty string.
EnvValues(k) ==
    CASE k = HOST -> {None, "", "https://adb"}
      [] k = CLIENT_ID -> {None, "", "sp-id"}
      [] k = CLIENT_SECRET -> {None, "", "sp-secret"}
      [] k = APP_NAME -> {None, "", "example-app"}
      [] k = WAREHOUSE -> {None, "wh-env"}

\* Values of the x-forwarded-access-token header: missing, empty, two users.
Headers == {None, "", "tokA", "tokB"}

\* Python truthiness of an optional string.
Truthy(v) == v # None /\ v # ""

\* ----------------------------------------------------------------- clients
NoClient == [kind |-> "none"]

\* WorkspaceClient(host=..., token=...): the keys of the three credential
\* variables present in os.environ when the constructor ran are recorded in
\* seen, because the SDK's configuration reads them; owner is the thread whose
\* request constructed the client, or "startup".
PresentKeys(e) == {k \in CliBranchKeys : e[k] # None}

UserClient(h, tok, e, o) ==
    [kind |-> "user", host |-> h, token |-> tok, seen |-> PresentKeys(e), owner |-> o]

\* WorkspaceClient() with no argument, using the SDK's default credential chain.
DefaultClient(knd, e, o) ==
    [kind |-> knd, host |-> None, token |-> None, seen |-> PresentKeys(e), owner |-> o]

\* ---------------------------------------------------------------- messages
ErrConsent == "Unable to authenticate with Databricks. Ensure user authorization is enabled for this app and the user has granted consent."
ErrCliLogin == "Unable to authenticate with Databricks. Please run 'databricks auth login' for local development."
ErrWarehouse == "SQL warehouse ID is required"
ErrNoServicePrincipal == "App service principal not available for job submission. Check app configuration."
ErrQueryEmpty == "Query template cannot be empty"
ErrJobId == "Job ID must be positive"
ErrJson == "JSONDecodeError"
ErrUpstream == "upstream API call failed"

\* ------------------------------------------------------------------- state
VARIABLES
    env,                \* os.environ: Keys -> value or None
    databricks_client,  \* the module global set by setup_databricks_client
    started,            \* initialize_utils has run
    sp_checked,         \* history: current_user.me() returned during startup
    nreq,               \* requests started so far
    envIdle,            \* history: os.environ when the running requests began
    pc,                 \* per thread: position in its request
    op,                 \* per thread: the operation of its request
    hdr,                \* per thread: the request's x-forwarded-access-token
    args,               \* per thread: the operation's arguments
    mode,               \* per thread: branch taken by get_user_authorized_client
    host,               \* per thread: the local host of get_user_authorized_client
    orig,               \* per thread: original_host / _client_id / _client_secret
    client,             \* per thread: the client the request resolved
    attempts,           \* per thread: WorkspaceClient constructor calls made
    calls,              \* per thread: outbound API calls made
    result,             \* per thread: the dict the operation returned
    raced               \* history: another request restored a key after this
                        \* request removed it and before it constructed

vars == <<env, databricks_client, started, sp_checked, nreq, envIdle, pc, op, hdr, args,
          mode, host, orig, client, attempts, calls, result, raced>>

NoArgs == [none |-> TRUE]
NoResult == [none |-> TRUE]
NoOrig == [k \in CliBranchKeys |-> None]

Running(t) == pc[t] \notin {"idle", "done"}

Init ==
    /\ env \in {e \in [Keys -> UNION {EnvValues(k) : k \in Keys}] :
                   \A k \in Keys : e[k] \in EnvValues(k)}
    /\ databricks_client = [kind |-> "unset"]
    /\ started = FALSE
    /\ sp_checked = FALSE
    /\ nreq = 0
    /\ envIdle = env
    /\ pc = [t \in Threads |-> "idle"]
    /\ op = [t \in Threads |-> None]
    /\ hdr = [t \in Threads |-> None]
    /\ args = [t \in Threads |-> NoArgs]
    /\ mode = [t \in Threads |-> None]
    /\ host = [t \in Threads |-> None]
    /\ orig = [t \in Threads |-> NoOrig]
    /\ client = [t \in Threads |-> NoClient]
    /\ attempts = [t \in Threads |-> 0]
    /\ calls = [t \in Threads |-> <<>>]
    /\ result = [t \in Threads |-> NoResult]
    /\ raced = [t \in Threads |-> FALSE]

\* ------------------------------------------------------------------ inputs
Queries == {"", " ", "SELECT :x"}
ParamJsons == {"{}", "{"}
WarehouseArgs == {None, "wh-arg"}
EndpointNames == {"", " ", "ep"}
JobIds == {0, 7}

\* Strip that leaves whitespace in place.
StripNothing(s) == s

\* str.strip() on the query templates and endpoint names above.
Strip(s) == IF s = " " THEN "" ELSE s

\* json.loads(s) if s else {}: TRUE when it returns, FALSE when it raises.
JsonLoads(s) == s \in {"", "{}"}

\* -------------------------------------------------------------- startup
\* SetupClient that keeps the client when the current-user check raised.
SetupClientUnchecked(built, checked, e) ==
    IF built THEN DefaultClient("sp", e, "startup") ELSE NoClient

\* The value setup_databricks_client leaves in databricks_client: built tells
\* whether WorkspaceClient() returned, checked whether current_user.me() did.
SetupClient(built, checked, e) ==
    IF built /\ checked THEN DefaultClient("sp", e, "startup") ELSE NoClient

\* setup_databricks_client: WorkspaceClient() and current_user.me(); any
\* exception leaves databricks_client = None and startup goes on.
SetupDatabricksClient ==
    /\ ~started
    /\ started' = TRUE
    /\ \E built \in BOOLEAN, checked \in BOOLEAN :
         /\ databricks_client' = SetupClient(built, checked, env)
         /\ sp_checked' = (built /\ checked)
    /\ UNCHANGED <<env, nreq, envIdle, pc, op, hdr, args, mode, host, orig,
                   client, attempts, calls, result, raced>>

\* ------------------------------------------------------- request arrival
\* A request for operation o with header h and arguments a reaches thread t.
CanBegin(t) == started /\ pc[t] = "idle" /\ nreq < MaxRequests

BeginRequest(t, o, h, a) ==
    /\ nreq' = nreq + 1
    /\ op' = [op EXCEPT ![t] = o]
    /\ hdr' = [hdr EXCEPT ![t] = h]
    /\ args' = [args EXCEPT ![t] = a]
    /\ orig' = [orig EXCEPT ![t] = NoOrig]
    /\ raced' = [raced EXCEPT ![t] = FALSE]
    /\ envIdle' = IF \A u \in Threads : ~Running(u) THEN env ELSE envIdle
    /\ UNCHANGED <<env, databricks_client, started, sp_checked>>

\* Failure that returns the failure dict without its error string.
FailureNoError(msg) == [success |-> FALSE, error |-> None, auth_method |-> None]

\* The except clause of an operation: handle_error and the failure dict.
Failure(msg) == [success |-> FALSE, error |-> msg, auth_method |-> None]
Success(am) == [success |-> TRUE, error |-> None, auth_method |-> am]

\* The operation raised before it called get_user_authorized_client.
FailEarly(t, msg) ==
    /\ pc' = [pc EXCEPT ![t] = "done"]
    /\ result' = [result EXCEPT ![t] = Failure(msg)]
    /\ mode' = [mode EXCEPT ![t] = None]
    /\ host' = [host EXCEPT ![t] = None]
    /\ client' = [client EXCEPT ![t] = NoClient]
    /\ attempts' = [attempts EXCEPT ![t] = 0]
    /\ calls' = [calls EXCEPT ![t] = <<>>]

\* get_user_access_token: the header, or None when it is missing or empty.
GetUserAccessToken(h) == IF Truthy(h) THEN h ELSE None

\* is_databricks_app = os.getenv('DATABRICKS_APP_NAME') is not None
IsDatabricksApp(e) == e[APP_NAME] # None

\* Branch with the final else falling back to CLI credentials.
BranchSilentFallback(h, e) ==
    IF Truthy(GetUserAccessToken(h)) /\ IsDatabricksApp(e) THEN "user" ELSE "cli"

\* Branch that takes the forwarded token wherever one is present.
BranchTokenFirst(h, e) ==
    IF Truthy(GetUserAccessToken(h)) THEN "user"
    ELSE IF ~IsDatabricksApp(e) THEN "cli"
    ELSE "none"

\* The branch get_user_authorized_client takes: "user" (forwarded token, in
\* the app), "cli" (local development) or "none" (in the app, no token).
Branch(h, e) ==
    IF Truthy(GetUserAccessToken(h)) /\ IsDatabricksApp(e) THEN "user"
    ELSE IF ~IsDatabricksApp(e) THEN "cli"
    ELSE "none"

\* HostMissing that lets the user branch go on without a host.
HostMissingNever(e) == FALSE

\* host = os.getenv('DATABRICKS_HOST'); if not host: return None
HostMissing(e) == ~Truthy(e[HOST])

\* Entry of get_user_authorized_client up to the first access to the three
\* credential variables: the branch, and in the user branch the host check.
EnterResolver(t, h) ==
    LET b == Branch(h, env) IN
    /\ mode' = [mode EXCEPT ![t] = b]
    /\ result' = [result EXCEPT ![t] = NoResult]
    /\ client' = [client EXCEPT ![t] = NoClient]
    /\ attempts' = [attempts EXCEPT ![t] = 0]
    /\ calls' = [calls EXCEPT ![t] = <<>>]
    /\ host' = [host EXCEPT ![t] = IF b = "user" THEN env[HOST] ELSE None]
    /\ pc' = [pc EXCEPT ![t] =
                IF b = "none" \/ (b = "user" /\ HostMissing(env))
                THEN "resolved" ELSE "save"]

\* WarehouseId that falls back to a default warehouse when none is given.
WarehouseIdWithDefault(w, e) ==
    IF Truthy(w) THEN w
    ELSE IF Truthy(e[WAREHOUSE]) THEN e[WAREHOUSE]
    ELSE "wh-default"

\* warehouse_id = query_request.warehouse_id or os.getenv('SQL_WAREHOUSE_ID')
WarehouseId(w, e) == IF Truthy(w) THEN w ELSE e[WAREHOUSE]

\* execute_sql_query up to and including the entry of the resolver.
ExecuteSqlQueryBegin(t) ==
    /\ CanBegin(t)
    /\ \E h \in Headers, q \in Queries, pj \in ParamJsons, w \in WarehouseArgs :
      /\ BeginRequest(t, "sql", h, [query_template |-> q, parameters_json |-> pj, warehouse_id |-> w])
      /\ IF ~JsonLoads(pj) THEN FailEarly(t, ErrJson)
         ELSE IF Strip(q) = "" THEN FailEarly(t, ErrQueryEmpty)
         ELSE IF ~Truthy(WarehouseId(w, env)) THEN FailEarly(t, ErrWarehouse)
         ELSE EnterResolver(t, h)

\* call_model_serving_endpoint up to and including the entry of the resolver.
CallModelServingBegin(t) ==
    /\ CanBegin(t)
    /\ \E h \in Headers, ep \in EndpointNames, ij \in ParamJsons :
      /\ BeginRequest(t, "serving", h, [endpoint_name |-> ep, inputs_json |-> ij])
      /\ IF ~JsonLoads(ij) THEN FailEarly(t, ErrJson)
         ELSE EnterResolver(t, h)

\* ------------------------------------- get_user_authorized_client, stepwise
BranchKeys(m) == IF m = "user" THEN UserBranchKeys ELSE CliBranchKeys

\* original_* = os.environ.get(...)
SavedOriginals(e, ks) == [k \in CliBranchKeys |-> IF k \in ks THEN e[k] ELSE None]

\* RemovedEnv that leaves DATABRICKS_HOST in place.
RemovedEnvKeepsHost(e, ks) == [k \in Keys |-> IF k \in ks \ {HOST} THEN None ELSE e[k]]

\* RemovedEnv that leaves DATABRICKS_CLIENT_SECRET in place.
RemovedEnvKeepsSecret(e, ks) ==
    [k \in Keys |-> IF k \in ks \ {CLIENT_SECRET} THEN None ELSE e[k]]

\* if KEY in os.environ: del os.environ[KEY], for every key of the branch
RemovedEnv(e, ks) == [k \in Keys |-> IF k \in ks THEN None ELSE e[k]]

\* finally: if original_x: os.environ[KEY] = original_x, for every key
RestoredEnv(e, o, ks) ==
    [k \in Keys |-> IF k \in ks /\ Truthy(o[k]) THEN o[k] ELSE e[k]]

Save(t) ==
    /\ pc[t] = "save"
    /\ orig' = [orig EXCEPT ![t] = SavedOriginals(env, BranchKeys(mode[t]))]
    /\ pc' = [pc EXCEPT ![t] = "remove"]
    /\ UNCHANGED <<env, databricks_client, started, sp_checked, nreq, envIdle, op, hdr, args,
                   mode, host, client, attempts, calls, result, raced>>

Remove(t) ==
    /\ pc[t] = "remove"
    /\ env' = RemovedEnv(env, BranchKeys(mode[t]))
    /\ raced' = [raced EXCEPT ![t] = FALSE]
    /\ pc' = [pc EXCEPT ![t] = "construct"]
    /\ UNCHANGED <<databricks_client, started, sp_checked, nreq, envIdle, op, hdr, args,
                   mode, host, orig, client, attempts, calls, result>>

\* BuiltClient that ignores host and token and uses the default chain.
BuiltClientDefaultChain(t) == DefaultClient("cli", env, t)

\* BuiltClient that hands out the client made at startup when there is one.
BuiltClientCached(t) ==
    IF databricks_client # NoClient THEN databricks_client
    ELSE IF mode[t] = "user"
    THEN UserClient(host[t], GetUserAccessToken(hdr[t]), env, t)
    ELSE DefaultClient("cli", env, t)

\* BuiltClient that takes the token from one place shared by all requests:
\* the header of some request in progress that carries one.
BuiltClientSharedToken(t) ==
    IF mode[t] = "user"
    THEN UserClient(host[t],
                    hdr[CHOOSE u \in Threads : Truthy(hdr[u])],
                    env, t)
    ELSE DefaultClient("cli", env, t)

\* The client the branch constructs: WorkspaceClient(host=host, token=user_token)
\* in the user branch, WorkspaceClient() in the CLI branch.
BuiltClient(t) ==
    IF mode[t] = "user"
    THEN UserClient(host[t], GetUserAccessToken(hdr[t]), env, t)
    ELSE DefaultClient("cli", env, t)

\* The constructor returns, or raises: the exception passes the finally
\* clause and the outer except returns None.
Construct(t) ==
    /\ pc[t] = "construct"
    /\ attempts' = [attempts EXCEPT ![t] = @ + 1]
    /\ \E ok \in BOOLEAN :
         client' = [client EXCEPT ![t] = IF ok THEN BuiltClient(t) ELSE NoClient]
    /\ pc' = [pc EXCEPT ![t] = "restore"]
    /\ UNCHANGED <<env, databricks_client, started, sp_checked, nreq, envIdle, op, hdr, args,
                   mode, host, orig, calls, result, raced>>

Restore(t) ==
    /\ pc[t] = "restore"
    /\ env' = RestoredEnv(env, orig[t], BranchKeys(mode[t]))
    /\ raced' = [u \in Threads |->
                    IF /\ u # t
                       /\ pc[u] = "construct"
                       /\ \E k \in BranchKeys(mode[u]) : env[k] = None /\ env'[k] # None
                    THEN TRUE ELSE raced[u]]
    /\ pc' = [pc EXCEPT ![t] = "resolved"]
    /\ UNCHANGED <<databricks_client, started, sp_checked, nreq, envIdle, op, hdr, args,
                   mode, host, orig, client, attempts, calls, result>>

\* -------------------------------------------- after the resolver returned
\* if not user_client: the message is chosen by os.getenv('DATABRICKS_APP_NAME')
NoClientMessage(e) == IF Truthy(e[APP_NAME]) THEN ErrConsent ELSE ErrCliLogin

\* Outbound that repeats the call once when it raised.
OutboundRetryOnce(t, api) ==
    \E ok \in BOOLEAN, again \in BOOLEAN :
      LET c == [api |-> api, client |-> client[t]] IN
      /\ calls' = [calls EXCEPT ![t] = IF ok THEN Append(@, c) ELSE Append(Append(@, c), c)]
      /\ result' = [result EXCEPT ![t] =
                      IF ok \/ again THEN Success(None) ELSE Failure(ErrUpstream)]

\* The outbound call with the resolved client; it returns or raises.
Outbound(t, api) ==
    \E ok \in BOOLEAN :
      /\ calls' = [calls EXCEPT ![t] = Append(@, [api |-> api, client |-> client[t]])]
      /\ result' = [result EXCEPT ![t] = IF ok THEN Success(None) ELSE Failure(ErrUpstream)]

Finish(t, o, api) ==
    /\ pc[t] = "resolved"
    /\ op[t] = o
    /\ IF client[t] = NoClient
       THEN /\ result' = [result EXCEPT ![t] = Failure(NoClientMessage(env))]
            /\ UNCHANGED calls
       ELSE Outbound(t, api)
    /\ pc' = [pc EXCEPT ![t] = "done"]
    /\ UNCHANGED <<env, databricks_client, started, sp_checked, nreq, envIdle, op, hdr, args,
                   mode, host, orig, client, attempts, raced>>

ExecuteSqlQueryFinish(t) == Finish(t, "sql", "execute_statement")

CallModelServingFinish(t) == Finish(t, "serving", "serving_endpoints.query")

\* ---------------------------------------------------- submit_databricks_job
\* auth_method = "app_service_principal" if os.getenv('DATABRICKS_APP_NAME')
\*               else "cli_authentication"
AuthMethod(e) == IF Truthy(e[APP_NAME]) THEN "app_service_principal" ELSE "cli_authentication"

\* if not client: the CLI fallback is taken when not os.getenv('DATABRICKS_APP_NAME')
JobFallsBackToCli(e) == ~Truthy(e[APP_NAME])

\* PrivilegedClient that prefers the CLI client outside the app.
PrivilegedClientCliFirst(dc, e, built, t) ==
    IF JobFallsBackToCli(e) /\ built THEN DefaultClient("cli", e, t)
    ELSE dc

\* client = get_databricks_client(); if not client: WorkspaceClient() outside
\* the app, where built tells whether that constructor returned; NoClient
\* stands for the ValueError raised when no client is to be had.
PrivilegedClient(dc, e, built, t) ==
    IF dc # NoClient THEN dc
    ELSE IF JobFallsBackToCli(e) /\ built THEN DefaultClient("cli", e, t)
    ELSE NoClient

\* The message of the ValueError raised when no privileged client is to be had.
PrivilegedFailure(e) == IF JobFallsBackToCli(e) THEN ErrCliLogin ELSE ErrNoServicePrincipal

\* WorkspaceClient() calls made by the privileged resolver.
PrivilegedAttempts(dc, e) == IF dc = NoClient /\ JobFallsBackToCli(e) THEN 1 ELSE 0

\* The whole operation: it reads os.environ and databricks_client and writes
\* neither, so one step is as good as many.
SubmitDatabricksJob(t) ==
    /\ CanBegin(t)
    /\ \E h \in Headers, j \in JobIds, pj \in ParamJsons, built \in BOOLEAN, ran \in BOOLEAN :
      /\ BeginRequest(t, "job", h, [job_id |-> j, parameters_json |-> pj])
      /\ pc' = [pc EXCEPT ![t] = "done"]
      /\ mode' = [mode EXCEPT ![t] = None]
      /\ host' = [host EXCEPT ![t] = None]
      /\ LET c == PrivilegedClient(databricks_client, env, built, t)
             fail(msg, n) ==
               /\ client' = [client EXCEPT ![t] = NoClient]
               /\ attempts' = [attempts EXCEPT ![t] = n]
               /\ calls' = [calls EXCEPT ![t] = <<>>]
               /\ result' = [result EXCEPT ![t] = Failure(msg)]
         IN IF ~JsonLoads(pj) THEN fail(ErrJson, 0)
            ELSE IF j <= 0 THEN fail(ErrJobId, 0)
            ELSE IF c = NoClient
                 THEN fail(PrivilegedFailure(env), PrivilegedAttempts(databricks_client, env))
            ELSE /\ client' = [client EXCEPT ![t] = c]
                 /\ attempts' = [attempts EXCEPT ![t] = PrivilegedAttempts(databricks_client, env)]
                 /\ calls' = [calls EXCEPT ![t] = <<[api |-> "jobs.run_now", client |-> c]>>]
                 /\ result' = [result EXCEPT ![t] =
                                 IF ran THEN Success(AuthMethod(env)) ELSE Failure(ErrUpstream)]

\* ------------------------------------------------------------ get_app_status
\* if user_token: "user_authorization" else "cli_fallback", with
\* user_token = get_user_access_token()
AuthMode(h) ==
    IF Truthy(GetUserAccessToken(h)) THEN "user_authorization" ELSE "cli_fallback"

\* The health_status dict get_app_status returns.
HealthStatus(am, dc) ==
    [status |-> "healthy", auth_mode |-> am,
     app_service_principal |-> IF dc # NoClient THEN "available" ELSE "not available"]

\* get_app_status up to and including the entry of the resolver.
GetAppStatusBegin(t) ==
    /\ CanBegin(t)
    /\ \E h \in Headers :
      /\ BeginRequest(t, "status", h, NoArgs)
      /\ EnterResolver(t, h)

\* get_app_status after the resolver: current_user.me() with the resolved
\* client returns or raises, and auth_mode is chosen.
GetAppStatusFinish(t) ==
    /\ pc[t] = "resolved"
    /\ op[t] = "status"
    /\ IF client[t] = NoClient
       THEN /\ result' = [result EXCEPT ![t] = HealthStatus("none", databricks_client)]
            /\ UNCHANGED calls
       ELSE \E ok \in BOOLEAN :
              /\ calls' = [calls EXCEPT ![t] =
                             Append(@, [api |-> "current_user.me", client |-> client[t]])]
              /\ result' = [result EXCEPT ![t] =
                              HealthStatus(IF ok THEN AuthMode(hdr[t]) ELSE "error",
                                           databricks_client)]
    /\ pc' = [pc EXCEPT ![t] = "done"]
    /\ UNCHANGED <<env, databricks_client, started, sp_checked, nreq, envIdle, op, hdr, args,
                   mode, host, orig, client, attempts, raced>>

\* ------------------------------------------------------------- send_test_log
Messages == {None, "hello"}
Levels == {None, "warning"}

\* message = message or "Test log message"
LogMessage(m) == IF Truthy(m) THEN m ELSE "Test log message"

\* level = level or "info"
LogLevel(l) == IF Truthy(l) THEN l ELSE "info"

\* The whole operation: the logger calls and send_to_azure_logs do not raise,
\* and the success dict carries the level and the message.
SendTestLog(t) ==
    /\ CanBegin(t)
    /\ \E h \in Headers, m \in Messages, l \in Levels :
      /\ BeginRequest(t, "log", h, [message |-> LogMessage(m), level |-> LogLevel(l)])
      /\ pc' = [pc EXCEPT ![t] = "done"]
      /\ mode' = [mode EXCEPT ![t] = None]
      /\ host' = [host EXCEPT ![t] = None]
      /\ client' = [client EXCEPT ![t] = NoClient]
      /\ attempts' = [attempts EXCEPT ![t] = 0]
      /\ calls' = [calls EXCEPT ![t] = <<>>]
      /\ result' = [result EXCEPT ![t] = Success(None)]

\* ------------------------------------------------------ the request returns
\* The operation's dict goes back to the Dash callback and the frame's locals
\* are dropped.
Return(t) ==
    /\ pc[t] = "done"
    /\ pc' = [pc EXCEPT ![t] = "idle"]
    /\ op' = [op EXCEPT ![t] = None]
    /\ hdr' = [hdr EXCEPT ![t] = None]
    /\ args' = [args EXCEPT ![t] = NoArgs]
    /\ mode' = [mode EXCEPT ![t] = None]
    /\ host' = [host EXCEPT ![t] = None]
    /\ orig' = [orig EXCEPT ![t] = NoOrig]
    /\ client' = [client EXCEPT ![t] = NoClient]
    /\ attempts' = [attempts EXCEPT ![t] = 0]
    /\ calls' = [calls EXCEPT ![t] = <<>>]
    /\ result' = [result EXCEPT ![t] = NoResult]
    /\ raced' = [raced EXCEPT ![t] = FALSE]
    /\ UNCHANGED <<env, databricks_client, started, sp_checked, nreq, envIdle>>

\* ------------------------------------------------------------ specifications
\* No request is in progress on another thread.
Quiet(t) == \A u \in Threads \ {t} : pc[u] = "idle"

\* One request at a time, over every startup environment and every input.
Next ==
    \/ SetupDatabricksClient
    \/ \E t \in Threads :
         \/ Quiet(t) /\ ExecuteSqlQueryBegin(t)
         \/ Quiet(t) /\ CallModelServingBegin(t)
         \/ Quiet(t) /\ SubmitDatabricksJob(t)
         \/ Quiet(t) /\ GetAppStatusBegin(t)
         \/ Quiet(t) /\ SendTestLog(t)
         \/ Save(t)
         \/ Remove(t)
         \/ Construct(t)
         \/ Restore(t)
         \/ ExecuteSqlQueryFinish(t)
         \/ CallModelServingFinish(t)
         \/ GetAppStatusFinish(t)
         \/ Return(t)

Spec == Init /\ [][Next]_vars

\* Requests served by concurrent threads, as the threaded server runs them.
\* To keep the interleavings checkable the requests are those that call
\* get_user_authorized_client, with arguments that pass validation; the header
\* is varied only where the resolver reads it (in the app); and every variable
\* of the startup environment is either unset or non-empty, with a warehouse id
\* configured.
ConcInputs ==
    \A t \in Threads :
      /\ hdr[t] # ""
      /\ env[APP_NAME] = None => hdr[t] = None
      /\ op[t] = "sql" =>
           /\ args[t].query_template = "SELECT :x"
           /\ args[t].parameters_json = "{}"
           /\ args[t].warehouse_id = None
      /\ op[t] = "serving" =>
           /\ args[t].endpoint_name = "ep"
           /\ args[t].inputs_json = "{}"

InitConc ==
    /\ Init
    /\ env[WAREHOUSE] = "wh-env"
    /\ \A k \in Keys : env[k] # ""

NextConc ==
    \/ SetupDatabricksClient
    \/ \E t \in Threads :
         \/ ExecuteSqlQueryBegin(t) /\ ConcInputs'
         \/ CallModelServingBegin(t) /\ ConcInputs'
         \/ Save(t)
         \/ Remove(t)
         \/ Construct(t)
         \/ Restore(t)
         \/ ExecuteSqlQueryFinish(t)
         \/ CallModelServingFinish(t)
         \/ Return(t)

SpecConc == InitConc /\ [][NextConc]_vars

\* ===================================================================== claims
ResolverOps == {"sql", "serving"}

\* The request of thread t called get_user_authorized_client.
Resolving(t) == op[t] \in ResolverOps /\ mode[t] # None

\* C1: in the app (DATABRICKS_APP_NAME set), a request without a forwarded
\* token gets no client from get_user_authorized_client; execute_sql_query and
\* call_model_serving_endpoint return success=false, no WorkspaceClient is
\* constructed and no outbound call is made.
C1_NoTokenInAppNoClient ==
    \A t \in Threads :
      (op[t] \in ResolverOps /\ IsDatabricksApp(env) /\ ~Truthy(hdr[t])) =>
        /\ pc[t] \in {"resolved", "done"}
        /\ client[t] = NoClient
        /\ attempts[t] = 0
        /\ calls[t] = <<>>
        /\ pc[t] = "done" => result[t].success = FALSE

C1_Witness ==
    \E t \in Threads :
      /\ op[t] = "serving" /\ pc[t] = "done" /\ mode[t] = "none"
      /\ env[APP_NAME] = "example-app" /\ hdr[t] = None
      /\ databricks_client # NoClient
      /\ PresentKeys(env) = CliBranchKeys
      /\ result[t].success = FALSE

\* C2: in the app, with a non-empty forwarded token and DATABRICKS_HOST
\* configured, get_user_authorized_client calls the constructor once, with
\* that request's token and that host; the client it returns is that client
\* (it returns None only when the constructor raised).
C2_UserClientFromTokenAndHost ==
    \A t \in Threads :
      (Resolving(t) /\ IsDatabricksApp(env) /\ Truthy(hdr[t]) /\ Truthy(env[HOST])) =>
        /\ mode[t] = "user"
        /\ pc[t] \in {"restore", "resolved", "done"} =>
             /\ attempts[t] = 1
             /\ client[t] # NoClient =>
                  /\ client[t].kind = "user"
                  /\ client[t].token = hdr[t]
                  /\ client[t].host = env[HOST]
                  /\ client[t].owner = t
        /\ \A i \in 1..Len(calls[t]) :
             /\ calls[t][i].client.kind = "user"
             /\ calls[t][i].client.token = hdr[t]
             /\ calls[t][i].client.host = env[HOST]

C2_Witness ==
    \E t \in Threads :
      /\ pc[t] = "resolved" /\ mode[t] = "user"
      /\ client[t].kind = "user" /\ client[t].token = "tokB"
      /\ client[t].host = "https://adb"
      /\ databricks_client # NoClient
      /\ orig[t][CLIENT_ID] = "sp-id"

\* C3: outside the app (DATABRICKS_APP_NAME unset) get_user_authorized_client
\* takes the CLI branch and constructs WorkspaceClient() without host or
\* token, whatever the request's forwarded token is.
C3_LocalUsesCliWhateverToken ==
    \A t \in Threads :
      (Resolving(t) /\ ~IsDatabricksApp(env)) =>
        /\ mode[t] = "cli"
        /\ pc[t] # "resolved" \/ attempts[t] = 1
        /\ client[t] # NoClient =>
             /\ client[t].kind = "cli"
             /\ client[t].token = None
             /\ client[t].host = None
        /\ \A i \in 1..Len(calls[t]) : calls[t][i].client.kind = "cli"

C3_Witness ==
    \E t \in Threads :
      /\ pc[t] = "done" /\ op[t] = "sql" /\ hdr[t] = "tokA"
      /\ env[APP_NAME] = None
      /\ client[t].kind = "cli"
      /\ Len(calls[t]) = 1 /\ calls[t][1].client.token = None
      /\ result[t].success

\* C4: one CLI-branch resolution with no concurrent request leaves os.environ
\* as it found it, for every startup environment (each of the three keys
\* unset, empty or non-empty), whether the constructor returned or raised.
C4_EnvRestoredAfterCliResolution ==
    \A t \in Threads :
      (Resolving(t) /\ mode[t] = "cli" /\ pc[t] \in {"resolved", "done"}) =>
        env = envIdle

\* C5: once all of two or more concurrently running resolutions have returned,
\* os.environ equals what it was before any of them started.
C5_EnvRestoredAfterConcurrentResolutions ==
    (\A t \in Threads : ~Running(t)) => env = envIdle

\* C6: the save / remove / construct / restore sequence is not serialized: a
\* CLI-branch request finds one of the three keys in os.environ at its
\* constructor call exactly because another request restored it in between
\* (the witness is the interleaving itself).
C6_KeyPresentAtConstructOnlyByRace ==
    \A t \in Threads :
      (Resolving(t) /\ mode[t] = "cli") =>
        /\ (pc[t] = "construct" /\ PresentKeys(env) # {}) => raced[t]
        /\ (client[t] # NoClient /\ client[t].seen # {}) => raced[t]

C6_Witness ==
    \E t \in Threads, u \in Threads :
      /\ t # u
      /\ Resolving(t) /\ mode[t] = "cli" /\ Resolving(u) /\ mode[u] = "cli"
      /\ pc[t] = "restore"
      /\ client[t].kind = "cli"
      /\ client[t].seen = CliBranchKeys
      /\ pc[u] \in {"resolved", "done"}

\* C7: in one CLI-branch resolution with no concurrent request, none of
\* DATABRICKS_HOST, DATABRICKS_CLIENT_ID, DATABRICKS_CLIENT_SECRET is in
\* os.environ when WorkspaceClient() is called, whatever the startup
\* environment.
C7_NoKeyPresentAtCliConstruct ==
    \A t \in Threads :
      (Resolving(t) /\ mode[t] = "cli") =>
        /\ pc[t] = "construct" => PresentKeys(env) = {}
        /\ client[t] # NoClient => client[t].seen = {}

C7_Witness ==
    \E t \in Threads :
      /\ Resolving(t) /\ mode[t] = "cli" /\ pc[t] = "restore"
      /\ PresentKeys(envIdle) = CliBranchKeys
      /\ client[t].kind = "cli" /\ client[t].seen = {}

\* The job request of thread t passed parsing and validation.
JobValid(t) ==
    op[t] = "job" /\ JsonLoads(args[t].parameters_json) /\ args[t].job_id > 0

\* C8: submit_databricks_job calls jobs.run_now with the pre-initialized
\* client whenever databricks_client is not None, in and outside the app and
\* with or without a forwarded token; no client it uses carries the token.
C8_JobUsesServicePrincipalClient ==
    \A t \in Threads :
      (JobValid(t) /\ pc[t] = "done") =>
        /\ databricks_client # NoClient =>
             /\ client[t] = databricks_client
             /\ attempts[t] = 0
             /\ calls[t] = <<[api |-> "jobs.run_now", client |-> databricks_client]>>
        /\ \A i \in 1..Len(calls[t]) : calls[t][i].client.token = None

C8_Witness ==
    \E t \in Threads :
      /\ JobValid(t) /\ pc[t] = "done"
      /\ env[APP_NAME] = None /\ hdr[t] = "tokA"
      /\ databricks_client.kind = "sp"
      /\ Len(calls[t]) = 1 /\ calls[t][1].client = databricks_client
      /\ result[t].success

\* C9: with databricks_client = None, submit_databricks_job falls back to a
\* CLI client only outside the app (DATABRICKS_APP_NAME unset); in the app
\* (DATABRICKS_APP_NAME set) it returns success=false, constructs no client
\* and never calls jobs.run_now.
C9_JobFallbackOnlyOutsideApp ==
    \A t \in Threads :
      (JobValid(t) /\ pc[t] = "done" /\ databricks_client = NoClient) =>
        IF IsDatabricksApp(env)
        THEN result[t].success = FALSE /\ calls[t] = <<>> /\ attempts[t] = 0
        ELSE attempts[t] = 1 /\ (client[t] # NoClient => client[t].kind = "cli")

\* The failure a message names.
CauseNamedBy(msg) ==
    CASE msg = ErrConsent -> "missing consent"
      [] msg = ErrCliLogin -> "missing CLI session"
      [] msg = ErrWarehouse -> "missing warehouse"
      [] msg = ErrNoServicePrincipal -> "missing service principal"
      [] OTHER -> "other"

\* The failure that made get_user_authorized_client return None.
ResolutionFailure(t) ==
    IF mode[t] = "none" THEN "missing consent"
    ELSE IF mode[t] = "user" /\ ~Truthy(host[t]) THEN "missing host"
    ELSE IF mode[t] = "cli" THEN "missing CLI session"
    ELSE "constructor raised"

\* C10: every failure of credential resolution reaches the caller of
\* execute_sql_query and call_model_serving_endpoint as an error string that
\* names that failure: missing host, missing consent, missing CLI session.
\* (Stated for the environments where DATABRICKS_APP_NAME is unset or
\* non-empty, on which both tests of the deployment context agree.)
C10_ResolutionFailureNamesItsCause ==
    \A t \in Threads :
      (Resolving(t) /\ pc[t] = "done" /\ client[t] = NoClient /\ env[APP_NAME] # "") =>
        /\ result[t].success = FALSE
        /\ ResolutionFailure(t) \in {"missing host", "missing consent", "missing CLI session"} =>
             CauseNamedBy(result[t].error) = ResolutionFailure(t)

\* The operations that return a dict with a success key.
ResultOps == {"sql", "job", "serving", "log"}

\* The error strings the except clauses of the operations produce.
ErrorStrings == {ErrConsent, ErrCliLogin, ErrWarehouse, ErrNoServicePrincipal,
                 ErrQueryEmpty, ErrJobId, ErrJson, ErrUpstream}

\* C11: every invocation of execute_sql_query, submit_databricks_job,
\* call_model_serving_endpoint and send_test_log returns one structured
\* result: success=true, or success=false with an error string. The result
\* exists exactly when the operation has ended, and every failure along the
\* way (bad JSON, validation, no client, the outbound call raising) ends in
\* such a result.
C11_OneStructuredResult ==
    \A t \in Threads :
      op[t] \in ResultOps =>
        /\ pc[t] \in {"save", "remove", "construct", "restore", "resolved", "done"}
        /\ pc[t] # "done" => result[t] = NoResult
        /\ pc[t] = "done" =>
             /\ result[t] # NoResult
             /\ result[t].success \in BOOLEAN
             /\ result[t].success => result[t].error = None
             /\ ~result[t].success => result[t].error \in ErrorStrings

C11_Witness ==
    \E t \in Threads :
      /\ op[t] = "sql" /\ pc[t] = "done"
      /\ Len(calls[t]) = 1
      /\ result[t] = Failure(ErrUpstream)

\* C12: in the app, with a forwarded token and DATABRICKS_HOST absent (or
\* empty), get_user_authorized_client returns no client, calls no constructor,
\* saves nothing and leaves every environment variable as it was.
C12_NoHostNoClientEnvUntouched ==
    \A t \in Threads :
      (mode[t] # None /\ IsDatabricksApp(env) /\ Truthy(hdr[t]) /\ ~Truthy(env[HOST])) =>
        /\ mode[t] = "user"
        /\ pc[t] \in {"resolved", "done"}
        /\ client[t] = NoClient
        /\ attempts[t] = 0
        /\ calls[t] = <<>>
        /\ orig[t] = NoOrig
        /\ env = envIdle

C12_Witness ==
    \E t \in Threads :
      /\ op[t] = "sql" /\ pc[t] = "resolved" /\ mode[t] = "user"
      /\ hdr[t] = "tokA"
      /\ env[APP_NAME] = "example-app" /\ env[HOST] = None
      /\ env[CLIENT_ID] = "sp-id" /\ env[CLIENT_SECRET] = "sp-secret"
      /\ client[t] = NoClient

\* The outbound API of each operation.
ApiOf(o) ==
    CASE o = "sql" -> "execute_statement"
      [] o = "serving" -> "serving_endpoints.query"
      [] o = "job" -> "jobs.run_now"
      [] o = "status" -> "current_user.me"
      [] OTHER -> None

\* C13: no retries. A request makes at most one WorkspaceClient constructor
\* call and at most one outbound API call, the one of its operation; a request
\* that got no client, or that failed before the outbound call, has made no
\* outbound call when it returns.
C13_NoRetries ==
    \A t \in Threads :
      /\ attempts[t] <= 1
      /\ Len(calls[t]) <= 1
      /\ \A i \in 1..Len(calls[t]) : calls[t][i].api = ApiOf(op[t])
      /\ (pc[t] \in {"resolved", "done"} /\ client[t] = NoClient) => calls[t] = <<>>
      /\ (pc[t] = "done" /\ op[t] \in ResultOps /\ ~result[t].success
            /\ result[t].error # ErrUpstream) => calls[t] = <<>>

C13_Witness ==
    \E t \in Threads :
      /\ op[t] = "serving" /\ pc[t] = "done"
      /\ attempts[t] = 1 /\ Len(calls[t]) = 1
      /\ result[t].success = FALSE /\ result[t].error = ErrUpstream

\* C14 as stated: every client used for an outbound call was created by the
\* request that uses it, submit_databricks_job included.
C14_EveryClientFreshPerRequest ==
    \A t \in Threads :
      \A i \in 1..Len(calls[t]) : calls[t][i].client.owner = t

\* C14, amended: every client used by execute_sql_query,
\* call_model_serving_endpoint and get_app_status was created by the resolver
\* call of that same request, from the forwarded token or from the CLI
\* credentials; submit_databricks_job uses the one client made at startup,
\* which all job requests share, and a CLI client of its own only when there
\* is no such client.
C14_FreshExceptStartupClient ==
    \A t \in Threads :
      \A i \in 1..Len(calls[t]) :
        LET c == calls[t][i].client IN
        /\ c = client[t]
        /\ op[t] # "job" =>
             /\ c.kind \in {"user", "cli"}
             /\ c.owner = t
        /\ op[t] = "job" =>
             \/ c = databricks_client /\ c.kind = "sp" /\ c.owner = "startup"
             \/ c.kind = "cli" /\ c.owner = t /\ databricks_client = NoClient

C14_Witness ==
    \E t \in Threads :
      /\ op[t] = "job" /\ pc[t] = "done" /\ nreq = 2
      /\ Len(calls[t]) = 1
      /\ calls[t][1].client = databricks_client
      /\ calls[t][1].client.owner = "startup"

\* C15: serving_endpoints.query is never called with an empty or
\* whitespace-only endpoint name; call_model_serving_endpoint with such a name
\* returns success=false without calling the endpoint.
C15_NoQueryWithEmptyEndpointName ==
    \A t \in Threads :
      (op[t] = "serving" /\ Strip(args[t].endpoint_name) = "") =>
        /\ calls[t] = <<>>
        /\ pc[t] = "done" => result[t].success = FALSE

\* C16: validation comes before resolution and before the outbound call.
\* submit_databricks_job with a job id that is not positive, and
\* execute_sql_query with an empty or blank query template, return
\* success=false, enter no resolver, construct no client and make no call.
C16_ValidationBeforeResolution ==
    \A t \in Threads :
      (\/ op[t] = "sql" /\ args[t].query_template \in {"", " "}
       \/ op[t] = "job" /\ args[t].job_id <= 0) =>
        /\ pc[t] = "done"
        /\ result[t].success = FALSE
        /\ result[t].error \in {ErrJson, ErrQueryEmpty, ErrJobId}
        /\ mode[t] = None
        /\ client[t] = NoClient
        /\ attempts[t] = 0
        /\ calls[t] = <<>>

C16_Witness ==
    \E t \in Threads :
      /\ op[t] = "sql" /\ pc[t] = "done"
      /\ args[t].query_template = " " /\ args[t].warehouse_id = "wh-arg"
      /\ result[t] = Failure(ErrQueryEmpty)
      /\ env[APP_NAME] = None

\* C17: startup does not abort when the service-principal connection fails.
\* Once setup_databricks_client has returned, databricks_client is None or a
\* client whose current_user.me() check returned; the environment is as the
\* process found it; and with databricks_client = None a request can still
\* begin and is resolved per request, from the forwarded token or the CLI
\* credentials.
C17_StartupSurvivesFailedConnection ==
    /\ ~started => databricks_client = [kind |-> "unset"]
    /\ started =>
         /\ \/ databricks_client = NoClient /\ ~sp_checked
            \/ /\ databricks_client.kind = "sp"
               /\ databricks_client.owner = "startup"
               /\ sp_checked
         /\ \A t \in Threads :
              /\ (databricks_client = NoClient /\ CanBegin(t) /\ Quiet(t)) =>
                   ENABLED ExecuteSqlQueryBegin(t)
              /\ (databricks_client = NoClient /\ op[t] \in ResolverOps /\ client[t] # NoClient) =>
                   /\ client[t].kind \in {"user", "cli"}
                   /\ client[t].owner = t

C17_Witness ==
    \E t \in Threads :
      /\ started /\ databricks_client = NoClient
      /\ op[t] = "sql" /\ pc[t] = "done"
      /\ client[t].kind = "user" /\ client[t].token = "tokA"
      /\ Len(calls[t]) = 1
      /\ result[t].success = TRUE

\* C18: the auth_mode get_app_status reports matches the client it resolved:
\* "user_authorization" only for a client built from the forwarded token,
\* "cli_fallback" only for a client built from the CLI credentials.
C18_AuthModeMatchesResolvedClient ==
    \A t \in Threads :
      (op[t] = "status" /\ pc[t] = "done") =>
        /\ result[t].auth_mode = "user_authorization" => client[t].kind = "user"
        /\ result[t].auth_mode = "cli_fallback" => client[t].kind = "cli"

\* C19: the auth_method of a successful submit_databricks_job names the client
\* that submitted the job: "app_service_principal" exactly when it was the
\* client made at startup, "cli_authentication" exactly when it was the CLI
\* fallback client. Stated here for the contexts where DATABRICKS_APP_NAME is
\* set to a name or unset, and the service principal's credentials are in the
\* environment.
C19_AuthMethodMatchesClientUsed ==
    \A t \in Threads :
      (/\ op[t] = "job" /\ pc[t] = "done" /\ result[t].success
       /\ env[APP_NAME] # "" /\ \A k \in CliBranchKeys : Truthy(env[k])) =>
        /\ result[t].auth_method = "app_service_principal" <=> client[t] = databricks_client
        /\ result[t].auth_method = "cli_authentication" <=> client[t].kind = "cli"

\* C20: whatever the interleaving of concurrent requests in the app, the
\* client a request resolves, and the client its execute_statement or
\* serving_endpoints.query call is made with, is built from that request's
\* own forwarded token; a request never uses a token that only another
\* request carries.
C20_ClientBoundToOwnToken ==
    \A t \in Threads :
      (op[t] \in ResolverOps /\ IsDatabricksApp(env)) =>
        /\ client[t] # NoClient =>
             /\ client[t].kind = "user"
             /\ client[t].token = hdr[t]
             /\ client[t].owner = t
        /\ \A i \in 1..Len(calls[t]) :
             /\ calls[t][i].client.kind = "user"
             /\ calls[t][i].client.token = hdr[t]
             /\ \A u \in Threads \ {t} :
                  hdr[u] # hdr[t] => calls[t][i].client.token # hdr[u]

C20_Witness ==
    /\ env[APP_NAME] = "example-app"
    /\ hdr["t1"] = "tokA" /\ hdr["t2"] = "tokB"
    /\ op["t1"] = "sql" /\ pc["t1"] = "done" /\ Len(calls["t1"]) = 1
    /\ calls["t1"][1].client.token = "tokA"
    /\ op["t2"] = "serving" /\ pc["t2"] = "done" /\ Len(calls["t2"]) = 1
    /\ calls["t2"][1].client.token = "tokB"

\* C21: in execute_sql_query the warehouse check comes before credential
\* resolution. When neither the warehouse_id argument nor SQL_WAREHOUSE_ID
\* gives a warehouse id, the operation returns success=false (naming the
\* missing warehouse id when the other arguments are valid), enters no
\* resolver, saves and removes no environment variable, constructs no client
\* and makes no outbound call.
C21_WarehouseCheckBeforeResolution ==
    \A t \in Threads :
      (op[t] = "sql" /\ ~Truthy(args[t].warehouse_id) /\ ~Truthy(env[WAREHOUSE])) =>
        /\ pc[t] = "done"
        /\ result[t].success = FALSE
        /\ (JsonLoads(args[t].parameters_json) /\ args[t].query_template \notin {"", " "}) =>
             result[t].error = ErrWarehouse
        /\ mode[t] = None
        /\ client[t] = NoClient
        /\ attempts[t] = 0
        /\ calls[t] = <<>>
        /\ orig[t] = NoOrig
        /\ env = envIdle

C21_Witness ==
    \E t \in Threads :
      /\ op[t] = "sql" /\ pc[t] = "done"
      /\ args[t] = [query_template |-> "SELECT :x", parameters_json |-> "{}", warehouse_id |-> None]
      /\ env[WAREHOUSE] = None /\ env[APP_NAME] = None
      /\ env[CLIENT_ID] = "sp-id" /\ env[CLIENT_SECRET] = "sp-secret"
      /\ result[t] = Failure(ErrWarehouse)

====
